---- MODULE Spec2Model ----
(***************************************************************************)
(* Model of mgi::CSeqAllocCont<nBlockSize> (mgiContainer.h): a sequential  *)
(* allocator over a singly linked chain of fixed-size nodes.  Pointers are *)
(* modelled as integer addresses, NULL is address 0, and the heap is the   *)
(* function from the address of every live NODE_t to its `next` field.     *)
(***************************************************************************)
EXTENDS Integers, Sequences, FiniteSets, TLC

VARIABLES
    pHead,      \* NODE_t* pHead
    pLast,      \* NODE_t* pLast
    pCurrent,   \* uintptr_t pCurrent
    heap,       \* live NODE_t objects: address -> value of the node's next field
    status,     \* "ready", "crashed" (the process died) or "destroyed"
    ubTraps,    \* the build: TRUE when undefined behaviour traps, FALSE when it runs on
    nAcq,       \* memory source: number of successful new NODE_t so far
    nRel,       \* memory source: number of delete so far
    allocs,     \* addresses returned since construction or the last Clean/Reset
    genAcq,     \* blocks acquired by Allocate since construction or the last Clean/Reset
    call,       \* the last call made on the container, with the state it started from
    phase,      \* the caller: "free", or the position in a two-pass replay
    first       \* the caller: what the first pass of a replay did

driver == <<phase, first>>
vars == <<pHead, pLast, pCurrent, heap, status, ubTraps, nAcq, nRel, allocs, genAcq,
          call, phase, first>>

----------------------------------------------------------------------------
(* Bounds of the model *)

\* number of places at which the memory source can put a node
NumSlots == 3
\* number of successful allocations followed within one generation
MaxAllocs == 4
\* number of nodes the memory source hands out over the container's lifetime
MaxAcquire == 4
\* number of allocations followed in a pass that allocates one type only
MaxBump == 10

----------------------------------------------------------------------------
(* The program's constants and types *)

NULL == 0

\* template parameter nBlockSize (static_assert: > 128)
nBlockSize == 256

\* sizeof(NODE_t): char data[nBlockSize] followed by NODE_t* next
NodeSize == nBlockSize + 8

\* The object types T the caller instantiates Allocate<T> with: sizeof and alignof.
TChar == [size |-> 1, align |-> 1]
TDouble == [size |-> 8, align |-> 8]
TVec == [size |-> 32, align |-> 16]
THalf == [size |-> 128, align |-> 8]
TFull == [size |-> nBlockSize, align |-> 8]
Types == {TChar, TDouble, TVec, THalf, TFull}

\* operator new: nodes are placed 16-aligned, one malloc chunk after another
SlotAddr(i) == 4096 + i * (NodeSize + 8)
Slots == {SlotAddr(i) : i \in 0 .. NumSlots - 1}
FreeSlots(hp) == Slots \ DOMAIN hp

Range(s) == {s[i] : i \in 1 .. Len(s)}
Distinct(s) == \A i, j \in 1 .. Len(s) : i # j => s[i] # s[j]

\* the & of two unsigned integers
RECURSIVE BitAnd(_, _)
BitAnd(x, y) ==
    IF x = 0 \/ y = 0 THEN 0
    ELSE (x % 2) * (y % 2) + 2 * BitAnd(x \div 2, y \div 2)

----------------------------------------------------------------------------
(* Pure parts of the member functions *)

\* if ((pCurrent & __alignof(T)) != 0) { pCurrent &= __alignof(T); pCurrent += __alignof(T); }
AlignFix(p, a) == IF BitAnd(p, a) # 0 THEN BitAnd(p, a) + a ELSE p

\* (uintptr_t)&b->data[nBlockSize]; data is the node's first member
DataEnd(b) == b + nBlockSize

\* pCurrent + sizeof(T) > (uintptr_t)&pLast->data[nBlockSize]
Exceeds(p, T, b) == p + T.size > DataEnd(b)

\* the nodes reached from p by following next, in order
RECURSIVE ChainFrom(_, _, _)
ChainFrom(p, hp, fuel) ==
    IF p = NULL \/ fuel = 0 THEN <<>>
    ELSE IF p \notin DOMAIN hp THEN <<p>>
    ELSE <<p>> \o ChainFrom(hp[p], hp, fuel - 1)

Chain == ChainFrom(pHead, heap, NumSlots + 1)

\* [addr, addr + size) is storage of a live node
InLive(addr, size, hp) == \E b \in DOMAIN hp : b <= addr /\ addr + size <= DataEnd(b)

NoType == [size |-> 0, align |-> 0]
Pre == [pLast |-> pLast, pCurrent |-> pCurrent, chain |-> Chain, live |-> DOMAIN heap,
        nAcq |-> nAcq, nRel |-> nRel]

----------------------------------------------------------------------------
(* Allocate<T> *)

AllocOut(o, last, cur, hp, ret, acq) ==
    [outcome |-> o, pLast |-> last, pCurrent |-> cur, heap |-> hp, ret |-> ret, acq |-> acq]

AllocFinishNoBump(T, last, c2, hp, acq) ==
    LET c3 == AlignFix(c2, T.align)
    IN  IF BitAnd(c2, T.align) # 0 /\ Exceeds(c3, T, last)
        THEN AllocOut("bad_alloc", last, c3, hp, NULL, acq)
        ELSE IF ubTraps /\ ~InLive(c3, T.size, hp)
        THEN AllocOut("fault", last, c3, hp, NULL, acq)
        ELSE AllocOut("ok", last, c3, hp, c3, acq)

\* lines 87-97: the second alignment step, the throw, the placement and the bump
AllocFinish(T, last, c2, hp, acq) ==
    LET c3 == AlignFix(c2, T.align)
    IN  IF BitAnd(c2, T.align) # 0 /\ Exceeds(c3, T, last)
        THEN AllocOut("bad_alloc", last, c3, hp, NULL, acq)
        ELSE IF ubTraps /\ ~InLive(c3, T.size, hp)
        THEN AllocOut("fault", last, c3, hp, NULL, acq)
        ELSE AllocOut("ok", last, c3 + T.size, hp, c3, acq)

\* if(pLast->next==nullptr): the tail has no successor to reuse
NeedsNewAlways(last, hp) == TRUE

NeedsNew(last, hp) == hp[last] = NULL

NextTailSkips(last, hp) == IF hp[hp[last]] # NULL THEN hp[hp[last]] ELSE hp[last]

\* pLast = pLast->next, when the successor is reused
NextTail(last, hp) == hp[last]

AllocOomNullTail(last, c1, hp) == AllocOut("oom", hp[last], c1, hp, NULL, <<>>)

\* new NODE_t throws: the assignment to pLast->next and what follows it are not run
AllocOom(last, c1, hp) == AllocOut("oom", last, c1, hp, NULL, <<>>)

\* lines 76-86, then AllocFinish: every way one call of Allocate<T> can end
AllocResults(T) ==
    LET c1 == AlignFix(pCurrent, T.align)
    IN  IF pLast = NULL /\ ubTraps
        THEN {AllocOut("fault", pLast, c1, heap, NULL, <<>>)}
        ELSE IF ~Exceeds(c1, T, pLast)
        THEN {AllocFinish(T, pLast, c1, heap, <<>>)}
        ELSE IF pLast = NULL
        THEN {AllocOut("fault", pLast, c1, heap, NULL, <<>>)}
        ELSE IF ~NeedsNew(pLast, heap)
        THEN {AllocFinish(T, NextTail(pLast, heap), NextTail(pLast, heap), heap, <<>>)}
        ELSE {AllocOom(pLast, c1, heap)}
             \cup {AllocFinish(T, s, s, (s :> NULL) @@ [heap EXCEPT ![pLast] = s], <<s>>) :
                     s \in IF nAcq < MaxAcquire THEN FreeSlots(heap) ELSE {}}

Allocate(T) ==
    /\ status = "ready"
    /\ T.size <= nBlockSize
    /\ \E r \in AllocResults(T) :
        /\ pLast' = r.pLast
        /\ pCurrent' = r.pCurrent
        /\ heap' = r.heap
        /\ status' = IF r.outcome = "fault" THEN "crashed" ELSE "ready"
        /\ nAcq' = nAcq + Len(r.acq)
        /\ genAcq' = genAcq + Len(r.acq)
        /\ allocs' = IF r.outcome = "ok" THEN Append(allocs, [T |-> T, addr |-> r.ret])
                     ELSE allocs
        /\ call' = [op |-> "Allocate", T |-> T, outcome |-> r.outcome, ret |-> r.ret,
                    acq |-> r.acq, rel |-> <<>>, pre |-> Pre]
    /\ UNCHANGED <<pHead, ubTraps, nRel>>

----------------------------------------------------------------------------
(* Clean, Reset and the destructor *)

CleanNoCursor ==
    /\ status = "ready"
    /\ pLast' = pHead
    /\ pCurrent' = pCurrent
    /\ allocs' = <<>>
    /\ genAcq' = 0
    /\ call' = [op |-> "Clean", T |-> NoType, outcome |-> "ok", ret |-> NULL,
                acq |-> <<>>, rel |-> <<>>, pre |-> Pre]
    /\ UNCHANGED <<pHead, heap, status, ubTraps, nAcq, nRel>>

CleanKeepTail ==
    /\ status = "ready"
    /\ pLast' = pLast
    /\ pCurrent' = pHead
    /\ allocs' = <<>>
    /\ genAcq' = 0
    /\ call' = [op |-> "Clean", T |-> NoType, outcome |-> "ok", ret |-> NULL,
                acq |-> <<>>, rel |-> <<>>, pre |-> Pre]
    /\ UNCHANGED <<pHead, heap, status, ubTraps, nAcq, nRel>>

Clean ==
    /\ status = "ready"
    /\ pLast' = pHead
    /\ pCurrent' = pHead
    /\ allocs' = <<>>
    /\ genAcq' = 0
    /\ call' = [op |-> "Clean", T |-> NoType, outcome |-> "ok", ret |-> NULL,
                acq |-> <<>>, rel |-> <<>>, pre |-> Pre]
    /\ UNCHANGED <<pHead, heap, status, ubTraps, nAcq, nRel>>

\* delete, for each node of rel
Delete(hp, rel) == [b \in DOMAIN hp \ Range(rel) |-> hp[b]]

ResetRelFirstOnly(hd, hp) == ChainFrom(hp[hd], hp, 1)

\* the nodes the loop of Reset deletes, in order
ResetRel(hd, hp) == ChainFrom(hp[hd], hp, NumSlots + 1)

ResetHeapKeepsLink(hd, hp) == Delete(hp, ResetRel(hd, hp))

\* the heap after Reset: pHead->next = nullptr, and the deleted nodes are gone
ResetHeap(hd, hp) == Delete([hp EXCEPT ![hd] = NULL], ResetRel(hd, hp))

\* the value of pLast when the loop of Reset ends
ResetLast(hd, hp) == NULL

Reset ==
    /\ status = "ready"
    /\ heap' = ResetHeap(pHead, heap)
    /\ pLast' = ResetLast(pHead, heap)
    /\ nRel' = nRel + Len(ResetRel(pHead, heap))
    /\ allocs' = <<>>
    /\ genAcq' = 0
    /\ call' = [op |-> "Reset", T |-> NoType, outcome |-> "ok", ret |-> NULL,
                acq |-> <<>>, rel |-> ResetRel(pHead, heap), pre |-> Pre]
    /\ UNCHANGED <<pHead, pCurrent, status, ubTraps, nAcq>>

DestroyRelNoHead(hd, hp) == ResetRel(hd, hp)

\* the nodes the destructor deletes, in order: Reset(); delete pHead;
DestroyRel(hd, hp) == Append(ResetRel(hd, hp), hd)

Destroy ==
    /\ status = "ready"
    /\ heap' = Delete([heap EXCEPT ![pHead] = NULL], DestroyRel(pHead, heap))
    /\ pLast' = ResetLast(pHead, heap)
    /\ nRel' = nRel + Len(DestroyRel(pHead, heap))
    /\ status' = "destroyed"
    /\ call' = [op |-> "Destroy", T |-> NoType, outcome |-> "ok", ret |-> NULL,
                acq |-> <<>>, rel |-> DestroyRel(pHead, heap), pre |-> Pre]
    /\ UNCHANGED <<pHead, pCurrent, ubTraps, nAcq, allocs, genAcq>>

----------------------------------------------------------------------------
(* The container under a caller that makes any calls *)

NoFirst == [reqs |-> <<>>, K |-> 0, acq |-> 0, nAcq |-> 0, by |-> "none"]

\* CSeqAllocCont(): pHead(new NODE_t), pLast(pHead), pCurrent((uintptr_t)pHead)
Construct ==
    /\ pHead \in Slots
    /\ pLast = pHead
    /\ pCurrent = pHead
    /\ heap = (pHead :> NULL)
    /\ status = "ready"
    /\ ubTraps \in BOOLEAN
    /\ nAcq = 1
    /\ nRel = 0
    /\ allocs = <<>>
    /\ genAcq = 0
    /\ call = [op |-> "Construct", T |-> NoType, outcome |-> "ok", ret |-> NULL,
               acq |-> <<pHead>>, rel |-> <<>>,
               pre |-> [pLast |-> NULL, pCurrent |-> 0, chain |-> <<>>, live |-> {},
                        nAcq |-> 0, nRel |-> 0]]

Init == Construct /\ phase = "free" /\ first = NoFirst

CallAllocate ==
    /\ phase = "free"
    /\ Len(allocs) < MaxAllocs
    /\ \E T \in Types : Allocate(T)
    /\ UNCHANGED driver

CallClean == phase = "free" /\ Clean /\ UNCHANGED driver

CallReset == phase = "free" /\ Reset /\ UNCHANGED driver

CallDestroy == phase = "free" /\ Destroy /\ UNCHANGED driver

Next == CallAllocate \/ CallClean \/ CallReset \/ CallDestroy

Spec == Init /\ [][Next]_vars

----------------------------------------------------------------------------
(* The container under a caller that makes a pass of allocations on a fresh  *)
(* container, calls Clean or Reset, and makes the same allocations again     *)

InitReplay == Construct /\ phase = "first" /\ first = NoFirst

FirstAllocate ==
    /\ phase = "first"
    /\ Len(allocs) < MaxAllocs
    /\ \E T \in Types : Allocate(T)
    /\ phase' = IF call'.outcome = "ok" THEN "first" ELSE "aborted"
    /\ UNCHANGED first

FirstDone(by) == [reqs |-> allocs, K |-> Len(Chain), acq |-> genAcq, nAcq |-> nAcq, by |-> by]

ReplayClean ==
    /\ phase = "first"
    /\ allocs # <<>>
    /\ Clean
    /\ phase' = "second"
    /\ first' = FirstDone("Clean")

ReplayReset ==
    /\ phase = "first"
    /\ allocs # <<>>
    /\ Reset
    /\ phase' = "second"
    /\ first' = FirstDone("Reset")

SecondAllocate ==
    /\ phase = "second"
    /\ Allocate(first.reqs[Len(allocs) + 1].T)
    /\ phase' = IF call'.outcome # "ok" THEN "failed"
                 ELSE IF Len(allocs') = Len(first.reqs) THEN "done" ELSE "second"
    /\ UNCHANGED first

NextReplay == FirstAllocate \/ ReplayClean \/ ReplayReset \/ SecondAllocate

SpecReplay == InitReplay /\ [][NextReplay]_vars

----------------------------------------------------------------------------
(* The container under a caller that allocates objects of one type, one after *)
(* the other, on a fresh container, and stops at the first failure            *)

\* further types: 32 bytes 8-aligned, 136 bytes 8-aligned, and an over-aligned one
TSmall == [size |-> 32, align |-> 8]
TOdd == [size |-> 136, align |-> 8]
TWide == [size |-> nBlockSize, align |-> 32]
UniformTypes == {TDouble, TVec, TSmall, TOdd, TFull, TWide}

InitUniform == Construct /\ phase = "uniform" /\ first = NoFirst

UniformAllocate ==
    /\ phase = "uniform"
    /\ Len(allocs) < MaxBump
    /\ \E T \in UniformTypes :
          /\ allocs # <<>> => T = allocs[1].T
          /\ Allocate(T)
    /\ phase' = IF call'.outcome = "ok" THEN "uniform" ELSE "stopped"
    /\ UNCHANGED first

NextUniform == UniformAllocate

SpecUniform == InitUniform /\ [][NextUniform]_vars

----------------------------------------------------------------------------
(* Properties *)

Returned == call.op = "Allocate" /\ call.outcome = "ok"

\* the linked blocks whose data storage holds all of [addr, addr + size)
HoldingBlocks(addr, size) ==
    {b \in Range(Chain) : b <= addr /\ addr + size <= DataEnd(b)}

\* the smallest multiple of a that is >= c
RoundUp(c, a) == ((c + a - 1) \div a) * a

\* C1: the range returned by a successful Allocate lies inside the data storage
\* of exactly one block that is linked in the chain.
C1_ReturnedRangeInsideOneBlock ==
    Returned => Cardinality(HoldingBlocks(call.ret, call.T.size)) = 1

\* C2: the ranges returned by two distinct successful Allocate calls of one
\* generation are disjoint.
C2_RangesOfOneGenerationDisjoint ==
    \A i, j \in 1 .. Len(allocs) :
        i < j => \/ allocs[i].addr + allocs[i].T.size <= allocs[j].addr
                 \/ allocs[j].addr + allocs[j].T.size <= allocs[i].addr

\* C3: the placement address is the smallest multiple of alignof(T) that is >= the
\* cursor (>= the start of the new tail after a block switch): it is aligned and
\* the padding is at most alignof(T) - 1 bytes.
C3_PlacementRoundsCursorUp ==
    Returned =>
        LET from == IF pLast # call.pre.pLast THEN pLast ELSE call.pre.pCurrent
        IN  /\ call.ret = RoundUp(from, call.T.align)
            /\ call.ret % call.T.align = 0
            /\ call.ret - from <= call.T.align - 1

\* C4: after Reset the arena is as freshly constructed: head has no successor,
\* tail is head (not null) and the cursor is the start of head's storage.
C4_ResetLeavesFreshArena ==
    call.op = "Reset" =>
        /\ heap[pHead] = NULL
        /\ pLast # NULL
        /\ pLast = pHead
        /\ pCurrent = pHead

\* C5: after a first pass that grew the chain to K > 1 blocks and a Reset, the same
\* allocations all succeed, the first object is placed in the head block and
\* exactly K - 1 blocks are acquired.
C5_ReplayAfterResetSucceeds ==
    (first.by = "Reset" /\ first.K > 1) =>
        /\ phase # "failed"
        /\ Len(allocs) >= 1 =>
              pHead <= allocs[1].addr /\ allocs[1].addr + allocs[1].T.size <= DataEnd(pHead)
        /\ phase = "done" => genAcq = first.K - 1

\* C6: Reset on a chain of K blocks releases exactly the K - 1 non-head blocks,
\* each once, and never head.
C6_ResetReleasesNonHeadBlocks ==
    call.op = "Reset" =>
        LET K == Len(call.pre.chain)
        IN  /\ K >= 1
            /\ call.rel = Tail(call.pre.chain)
            /\ Len(call.rel) = K - 1
            /\ Distinct(call.rel)
            /\ Range(call.rel) \subseteq call.pre.live
            /\ pHead \notin Range(call.rel)
            /\ DOMAIN heap = {pHead}
            /\ nRel = call.pre.nRel + K - 1

C6_Witness ==
    /\ call.op = "Reset"
    /\ Len(call.pre.chain) = 3
    /\ call.pre.pLast = pHead
    /\ Len(call.rel) = 2

\* C7: after a first pass and Clean, the same allocations acquire no block: every
\* block switch of the second pass moves to the linked successor of the tail.
C7_ReplayAfterCleanAcquiresNothing ==
    first.by = "Clean" =>
        /\ genAcq = 0
        /\ nAcq = first.nAcq
        /\ call.op = "Allocate" =>
              /\ call.acq = <<>>
              /\ call.outcome # "oom"
              /\ pLast # call.pre.pLast => pLast = heap[call.pre.pLast]

C7_Witness ==
    /\ first.by = "Clean"
    /\ phase = "done"
    /\ first.K = 3
    /\ pLast = Chain[3]

\* C8: Clean sets tail to head and the cursor to the start of head's storage, and
\* leaves the chain as it was: no block is released or acquired.
C8_CleanRewindsAndKeepsChain ==
    call.op = "Clean" =>
        /\ pLast = pHead
        /\ pCurrent = pHead
        /\ Chain = call.pre.chain
        /\ DOMAIN heap = call.pre.live
        /\ nAcq = call.pre.nAcq
        /\ nRel = call.pre.nRel

C8_Witness ==
    /\ call.op = "Clean"
    /\ Len(Chain) = 3
    /\ call.pre.pLast = Chain[3]
    /\ call.pre.pCurrent # pHead

\* Clean from the state Reset leaves
C8_WitnessAfterReset ==
    /\ call.op = "Clean"
    /\ call.pre.pLast = NULL
    /\ call.pre.pCurrent # pHead

\* C9: the second pass after Clean returns, request by request, the addresses of
\* the first pass.
C9_ReplayAfterCleanSameAddresses ==
    first.by = "Clean" =>
        /\ phase # "failed"
        /\ \A i \in 1 .. Len(allocs) : allocs[i] = first.reqs[i]
        /\ phase = "done" => allocs = first.reqs

C9_Witness ==
    /\ first.by = "Clean"
    /\ phase = "done"
    /\ Len(allocs) >= 3
    /\ first.K >= 2
    /\ pLast # pHead

\* C10: the destructor releases every block the arena owns exactly once: released
\* and acquired counts are equal, no block is released twice, head is released last.
C10_DestructorReleasesAll ==
    status = "destroyed" =>
        /\ call.op = "Destroy"
        /\ nRel = nAcq
        /\ DOMAIN heap = {}
        /\ Distinct(call.rel)
        /\ Range(call.rel) = call.pre.live
        /\ call.rel[Len(call.rel)] = pHead

C10_Witness ==
    /\ status = "destroyed"
    /\ Len(call.rel) = 3
    /\ call.pre.pLast = pHead
    /\ call.pre.pCurrent = pHead

\* the destructor run from the state Reset leaves
C10_WitnessAfterReset ==
    /\ status = "destroyed"
    /\ call.pre.pLast = NULL
    /\ call.rel = <<pHead>>
    /\ nAcq = 3

\* the call moved the tail to another block
Switched == call.op = "Allocate" /\ call.pre.pLast # NULL /\ pLast # call.pre.pLast

\* C11: when the aligned placement of T does not fit even at the start of the
\* freshly selected tail block, Allocate fails with std::bad_alloc and hands out
\* no address.
C11_UnfittableFailsWithBadAlloc ==
    (Switched /\ RoundUp(pLast, call.T.align) + call.T.size > DataEnd(pLast)) =>
        /\ call.outcome = "bad_alloc"
        /\ call.ret = NULL

Ceil(n, d) == (n + d - 1) \div d

\* C12: on a fresh arena whose blocks start aligned for T, n allocations of size s
\* (a multiple of the alignment) acquire ceil(n / floor(B / s)) blocks in total, and
\* object floor(B / s) + 1 is placed at offset 0 of the second block.
C12_BlocksFollowBumpModel ==
    (phase = "uniform" /\ allocs # <<>>) =>
        LET T == allocs[1].T
            n == Len(allocs)
            per == nBlockSize \div T.size
        IN  (T.size % T.align = 0 /\ \A b \in Range(Chain) : b % T.align = 0) =>
                /\ nAcq = Ceil(n, per)
                /\ n >= per + 1 => Len(Chain) >= 2 /\ allocs[per + 1].addr = Chain[2]

\* the instance of C12 the specification names: B = 256, s = 32, alignment 8, n = 10
C12_InstanceTenSmall ==
    (phase = "uniform" /\ Len(allocs) = 10 /\ allocs[1].T = TSmall) =>
        /\ nAcq = 2
        /\ allocs[9].addr = Chain[2]
        /\ allocs[9].addr % 8 = 0

C12_InstanceReached == phase = "uniform" /\ Len(allocs) = 10 /\ allocs[1].T = TSmall

\* both ranges lie in the data storage of one linked block
InSameBlock(x, y) ==
    \E b \in Range(Chain) :
        /\ b <= x.addr /\ x.addr + x.T.size <= DataEnd(b)
        /\ b <= y.addr /\ y.addr + y.T.size <= DataEnd(b)

\* C13: consecutive successful allocations that land in the same block return
\* strictly increasing addresses, the later at least the earlier plus its size.
C13_BumpIsMonotonicInBlock ==
    \A i \in 1 .. Len(allocs) - 1 :
        InSameBlock(allocs[i], allocs[i + 1]) =>
            /\ allocs[i + 1].addr > allocs[i].addr
            /\ allocs[i + 1].addr >= allocs[i].addr + allocs[i].T.size

C13_Witness ==
    /\ Len(allocs) = 3
    /\ InSameBlock(allocs[1], allocs[2])
    /\ InSameBlock(allocs[2], allocs[3])
    /\ allocs[3].addr # pLast
    /\ pLast # pHead

\* C14: in every ready state head and tail are non-null, the chain from head is a
\* finite sequence of distinct blocks, and tail is one of them.
C14_TailIsInChain ==
    status = "ready" =>
        /\ pHead # NULL
        /\ pLast # NULL
        /\ Distinct(Chain)
        /\ Len(Chain) <= NumSlots
        /\ pLast \in Range(Chain)

\* C15: in every ready state the cursor lies in the tail block's storage range:
\* start of tail's data <= cursor <= start of tail's data + BlockSize.
C15_CursorInTailBlock ==
    status = "ready" =>
        /\ pLast \in DOMAIN heap
        /\ pLast <= pCurrent
        /\ pCurrent <= DataEnd(pLast)

\* the successor of block b in chain c, NULL when b is last or not in c
SuccIn(c, b) ==
    IF \E i \in 1 .. Len(c) - 1 : c[i] = b
    THEN c[(CHOOSE i \in 1 .. Len(c) - 1 : c[i] = b) + 1]
    ELSE NULL

\* C16: when the aligned placement exceeds the tail block's storage, Allocate moves
\* to the tail's successor without acquiring a block when there is one, and
\* otherwise acquires exactly one block, links it after the old tail and makes it
\* the tail, the cursor starting at the new tail's start; when the placement fits,
\* the tail and the chain are unchanged.
C16_BlockSwitch ==
    (call.op = "Allocate" /\ call.outcome # "oom") =>
        LET old == call.pre.pLast
            succ == SuccIn(call.pre.chain, old)
            place == RoundUp(call.pre.pCurrent, call.T.align)
        IN  /\ old \in call.pre.live
            /\ IF place + call.T.size <= DataEnd(old)
               THEN pLast = old /\ Chain = call.pre.chain /\ call.acq = <<>>
               ELSE IF succ # NULL
               THEN /\ pLast = succ
                    /\ call.acq = <<>>
                    /\ Chain = call.pre.chain
                    /\ Returned => call.ret = RoundUp(succ, call.T.align)
               ELSE /\ Len(call.acq) = 1
                    /\ pLast = call.acq[1]
                    /\ pLast \notin call.pre.live
                    /\ Chain = Append(call.pre.chain, pLast)
                    /\ heap[pLast] = NULL
                    /\ Returned => call.ret = RoundUp(pLast, call.T.align)

\* C17: Allocate and Clean release no block, and head is the same live block from
\* construction on: the chain only grows, by one block appended after the last.
C17_ChainOnlyGrowsAtTheEnd ==
    /\ status # "destroyed" => pHead \in DOMAIN heap /\ Chain[1] = pHead
    /\ call.op \in {"Allocate", "Clean", "Reset"} => call.pre.chain[1] = pHead
    /\ call.op \in {"Allocate", "Clean"} =>
        /\ call.rel = <<>>
        /\ nRel = call.pre.nRel
        /\ call.pre.live \subseteq DOMAIN heap
        /\ \/ Chain = call.pre.chain /\ DOMAIN heap = call.pre.live
           \/ /\ Len(Chain) = Len(call.pre.chain) + 1
              /\ SubSeq(Chain, 1, Len(call.pre.chain)) = call.pre.chain
              /\ Chain[Len(Chain)] \notin call.pre.live
              /\ DOMAIN heap = call.pre.live \cup {Chain[Len(Chain)]}

C17_Witness ==
    /\ call.op = "Allocate"
    /\ Len(call.pre.chain) = 2
    /\ Len(Chain) = 3
    /\ nRel > 0

\* C18: when the memory source fails while Allocate grows the chain, the failure is
\* propagated, the chain and the tail are as before the call, no block is partly
\* linked, and the arena stays ready for later calls.
C18_OutOfMemoryLeavesChain ==
    (call.op = "Allocate" /\ call.outcome = "oom") =>
        /\ status = "ready"
        /\ call.ret = NULL
        /\ call.acq = <<>>
        /\ pLast = call.pre.pLast
        /\ pLast \in DOMAIN heap
        /\ Chain = call.pre.chain
        /\ DOMAIN heap = call.pre.live
        /\ DOMAIN heap = Range(Chain)
        /\ heap[pLast] = NULL
        /\ nAcq = call.pre.nAcq
        /\ nRel = call.pre.nRel

C18_Witness ==
    /\ call.op = "Allocate"
    /\ call.outcome = "oom"
    /\ Len(Chain) = 2
    /\ FreeSlots(heap) # {}
    /\ nAcq < MaxAcquire

\* the position of block b in chain c, 0 when it is not in c
IndexIn(c, b) == IF \E i \in 1 .. Len(c) : c[i] = b THEN CHOOSE i \in 1 .. Len(c) : c[i] = b ELSE 0

\* C19: one Allocate acquires at most one block and moves the tail forward by at
\* most one link: it skips no linked successor and never moves the tail back.
C19_AtMostOneLinkForward ==
    call.op = "Allocate" =>
        /\ Len(call.acq) <= 1
        /\ nAcq - call.pre.nAcq <= 1
        /\ Len(Chain) - Len(call.pre.chain) <= 1
        /\ \/ pLast = call.pre.pLast
           \/ /\ IndexIn(Chain, call.pre.pLast) >= 1
              /\ IndexIn(Chain, pLast) = IndexIn(Chain, call.pre.pLast) + 1

C19_Witness ==
    /\ call.op = "Allocate"
    /\ call.acq = <<>>
    /\ Len(Chain) = 3
    /\ call.pre.pLast = Chain[1]
    /\ pLast = Chain[2]

\* C20: Reset called right after Reset, and Clean called right after Clean, leave
\* the arena (head, tail, cursor, chain) and the release count as the first call
\* left them.
C20_ResetAndCleanIdempotent ==
    [][ ((call.op = "Reset" /\ call'.op = "Reset") \/ (call.op = "Clean" /\ call'.op = "Clean")) =>
            /\ pHead' = pHead
            /\ pLast' = pLast
            /\ pCurrent' = pCurrent
            /\ heap' = heap
            /\ status' = status
            /\ nRel' = nRel
            /\ nAcq' = nAcq
            /\ call'.rel = <<>> ]_vars

\* Reset called in the state Reset left after releasing two blocks
C20_Witness ==
    /\ call.op = "Reset"
    /\ call.pre.pLast = NULL
    /\ call.pre.pCurrent > DataEnd(pHead)
    /\ call.pre.nRel = 2
    /\ allocs = <<>>

\* Clean called in the state Clean left
C20_WitnessClean ==
    /\ call.op = "Clean"
    /\ call.pre.pLast = pHead
    /\ call.pre.pCurrent = pHead
    /\ Len(Chain) = 3
    /\ call.pre.nAcq = 3

====
